---- MODULE Spec2Model ----
(***************************************************************************)
(* Model of CharityWaterGame (src/script.js): the game-state engine of the *)
(* water drop game.  One action per handler or timer callback.             *)
(*                                                                         *)
(* Abstractions:                                                           *)
(*  - a drop id ('drop_' + Date.now() + '_' + random) is a fresh natural   *)
(*    number taken from the counter nextId (two spawns never share a       *)
(*    millisecond: the spawn interval is at least 800 ms);                 *)
(*  - the DOM position test of updateDrops (rect.top > gameAreaRect.bottom)*)
(*    is the flag "fallen" of a drop, set by the CSS animation (dropFalls) *)
(*    while the animation is not paused;                                   *)
(*  - in Spec every interval callback and the 300 ms cleanup timeout fires *)
(*    at any time while it is scheduled; SpecClock adds a wall clock that  *)
(*    advances in quanta, QuantaPerSecond of them between two firings of   *)
(*    the 1000 ms timer interval;                                          *)
(*  - SpecFall lets the drops fall on that clock, SpecKeys lets the        *)
(*    difficulty select carry a value that is not a key of the table, and  *)
(*    SpecLive is a short game under the fairness of the browser's timers. *)
(***************************************************************************)
EXTENDS Integers, Sequences, FiniteSets

\* ---------------------------------------------------------------- bounds
\* drops spawned in one run of Spec, and in one run of SpecClock
MaxIds == 30
ClockMaxIds == 2
\* drops spawned in one run of SpecLive
LiveMaxIds == 16
\* a spawn waits until every drop in the array is younger than MaxAge spawns
MaxAge == 1
\* only the first MaxFall drops of a session are carried below the game area
MaxFall == 1
\* largest gameTime explored
MaxSeconds == 1
\* quanta of wall-clock time in one period of the timer interval
QuantaPerSecond == 2

\* ------------------------------------------------------ program constants
Difficulties == {"easy", "normal", "hard"}

difficultySettings ==
    [easy   |-> [dropSpeed |-> 3000, spawnRate |-> 1500, targetScore |-> 15],
     normal |-> [dropSpeed |-> 2000, spawnRate |-> 1000, targetScore |-> 25],
     hard   |-> [dropSpeed |-> 1200, spawnRate |-> 800,  targetScore |-> 40]]

milestones == <<10, 20, 30>>

Null == 0
Handle == 1

Pulses == {"game", "spawn", "timer"}

VARIABLES
    isPlaying,          \* this.isPlaying
    isPaused,           \* this.isPaused
    score,              \* this.score
    gameTime,           \* this.gameTime
    drops,              \* this.drops: sequence of [id, collected, fallen,
                        \*   animationDuration, age, animated]
    gameInterval,       \* this.gameInterval: Null or Handle
    dropSpawnInterval,  \* this.dropSpawnInterval
    timerInterval,      \* this.timerInterval
    difficulty,         \* this.difficulty
    achievedMilestones, \* this.achievedMilestones
    gameOverTitle,      \* which modal endGame showed: "", "win" or "lose"
    scheduled,          \* number of live setInterval instances per pulse
    cleanups,           \* drop ids with a pending 300 ms cleanup timeout
    nextId,             \* source of fresh drop ids
    sessionFirstId,     \* history: value of nextId at the last startGame
    collectedIds,       \* history: ids marked collected in this session
    missedIds,          \* history: ids removed by updateDrops as fallen
    phase,              \* quanta since the timer interval last fired
    runQuanta           \* history: quanta this session spent unpaused

vars == <<isPlaying, isPaused, score, gameTime, drops, gameInterval,
          dropSpawnInterval, timerInterval, difficulty, achievedMilestones,
          gameOverTitle, scheduled, cleanups, nextId, sessionFirstId,
          collectedIds, missedIds, phase, runQuanta>>

\* drop ids a caller may pass: the youngest ids (everything in flight is
\* among them), the id not spawned yet, and every id removed as fallen
Ids == {i \in (nextId - MaxAge - 1) .. nextId : i >= 0} \cup missedIds

\* ---------------------------------------------------------------- helpers
targetScore == difficultySettings[difficulty].targetScore

\* this.drops.findIndex(drop => drop.id === dropId): 0 stands for -1
findIndex(ds, dropId) ==
    IF \E i \in 1 .. Len(ds) : ds[i].id = dropId
    THEN CHOOSE i \in 1 .. Len(ds) :
            /\ ds[i].id = dropId
            /\ \A j \in 1 .. (i - 1) : ds[j].id # dropId
    ELSE 0

\* this.drops.splice(i, 1)
splice1(ds, i) == SubSeq(ds, 1, i - 1) \o SubSeq(ds, i + 1, Len(ds))

includes(s, x) == \E i \in 1 .. Len(s) : s[i] = x

idsOf(ds) == {ds[i].id : i \in 1 .. Len(ds)}

\* Session states of the game
Idle == ~isPlaying /\ gameOverTitle = ""
Running == isPlaying /\ ~isPaused
Paused == isPlaying /\ isPaused
Ended == ~isPlaying /\ gameOverTitle # ""

\* ------------------------------------------------------------------- Init
Init ==
    /\ isPlaying = FALSE
    /\ isPaused = FALSE
    /\ score = 0
    /\ gameTime = 0
    /\ drops = <<>>
    /\ gameInterval = Null
    /\ dropSpawnInterval = Null
    /\ timerInterval = Null
    /\ difficulty = "normal"
    /\ achievedMilestones = <<>>
    /\ gameOverTitle = ""
    /\ scheduled = [p \in Pulses |-> 0]
    /\ cleanups = {}
    /\ nextId = 0
    /\ sessionFirstId = 0
    /\ collectedIds = {}
    /\ missedIds = {}
    /\ phase = 0
    /\ runQuanta = 0

\* ---------------------------------------------------------- clearIntervals
\* clearInterval on every handle that is set, then the handle is nulled.
clearedSchedule ==
    [p \in Pulses |->
        IF \/ p = "game" /\ gameInterval # Null
           \/ p = "spawn" /\ dropSpawnInterval # Null
           \/ p = "timer" /\ timerInterval # Null
        THEN scheduled[p] - 1
        ELSE scheduled[p]]

\* --------------------------------------------------------- checkMilestones
\* this.milestones.forEach(...) from position i on, for score s.
RECURSIVE milestonesFrom(_, _, _)
milestonesFrom(i, s, achieved) ==
    IF i > Len(milestones) THEN achieved
    ELSE IF s >= milestones[i] /\ ~includes(achieved, milestones[i])
         THEN milestonesFrom(i + 1, s, Append(achieved, milestones[i]))
         ELSE milestonesFrom(i + 1, s, achieved)

\* checkMilestones without the includes() test
checkMilestonesNoIncludes(s, achieved) ==
    achieved \o SelectSeq(milestones, LAMBDA m : s >= m)

\* checkMilestones comparing with > in place of >=
checkMilestonesStrict(s, achieved) == milestonesFrom(1, s - 1, achieved)

checkMilestones(s, achieved) == milestonesFrom(1, s, achieved)

\* -------------------------------------------------------------- resetGame
\* resetGame without the drops array: a reset that leaves this.drops alone
resetGameKeepsDrops ==
    /\ score' = 0
    /\ gameTime' = 0
    /\ achievedMilestones' = <<>>
    /\ drops' = drops

\* the fields resetGame assigns; its clearIntervals() is clearedSchedule
resetGame ==
    /\ score' = 0
    /\ gameTime' = 0
    /\ achievedMilestones' = <<>>
    /\ drops' = <<>>

\* -------------------------------------------------------------- startGame
\* startGame without its isPlaying guard
startGameUnguarded ==
    /\ resetGame
    /\ isPlaying' = TRUE
    /\ isPaused' = FALSE
    /\ dropSpawnInterval' = Handle
    /\ gameInterval' = Handle
    /\ timerInterval' = Handle
    /\ scheduled' = [p \in Pulses |-> clearedSchedule[p] + 1]
    /\ sessionFirstId' = nextId
    /\ collectedIds' = {}
    /\ phase' = 0
    /\ runQuanta' = 0
    /\ UNCHANGED <<difficulty, gameOverTitle, cleanups, nextId, missedIds>>

\* startGameLoop reads settings.spawnRate of difficultySettings[difficulty]:
\* with a key that is not in the table settings is undefined and the read
\* throws, before any setInterval and before startTimer
startGameLoopThrows == difficulty \notin DOMAIN difficultySettings

\* resetGame, then isPlaying, then startGameLoop and startTimer.
startGame ==
    IF isPlaying
    THEN UNCHANGED vars
    ELSE /\ resetGame
         /\ isPlaying' = TRUE
         /\ isPaused' = FALSE
         /\ IF startGameLoopThrows
            THEN /\ dropSpawnInterval' = Null
                 /\ gameInterval' = Null
                 /\ timerInterval' = Null
                 /\ scheduled' = clearedSchedule
            ELSE /\ dropSpawnInterval' = Handle
                 /\ gameInterval' = Handle
                 /\ timerInterval' = Handle
                 /\ scheduled' = [p \in Pulses |-> clearedSchedule[p] + 1]
         /\ sessionFirstId' = nextId
         /\ collectedIds' = {}
         /\ phase' = 0
         /\ runQuanta' = 0
         /\ UNCHANGED <<difficulty, gameOverTitle, cleanups, nextId, missedIds>>

\* playAgain: hideModal(), then startGame()
playAgain == startGame

\* the change handler of the difficulty select, which startGame disables
\* and endGame enables again
changeDifficultySelect(key) ==
    /\ ~isPlaying
    /\ difficulty' = key
    /\ UNCHANGED <<isPlaying, isPaused, score, gameTime, drops, gameInterval,
                   dropSpawnInterval, timerInterval, achievedMilestones,
                   gameOverTitle, scheduled, cleanups, nextId, sessionFirstId,
                   collectedIds, missedIds, phase, runQuanta>>

\* ------------------------------------------------------------ togglePause
togglePause ==
    IF ~isPlaying
    THEN UNCHANGED vars
    ELSE /\ isPaused' = ~isPaused
         /\ UNCHANGED <<isPlaying, score, gameTime, drops, gameInterval,
                        dropSpawnInterval, timerInterval, difficulty,
                        achievedMilestones, gameOverTitle, scheduled, cleanups,
                        nextId, sessionFirstId, collectedIds, missedIds,
                        phase, runQuanta>>

\* -------------------------------------------------------------- spawnDrop
spawnDrop(ds, dropId) ==
    Append(ds, [id |-> dropId, collected |-> FALSE, fallen |-> FALSE,
                animationDuration |-> difficultySettings[difficulty].dropSpeed,
                age |-> 0, animated |-> 0])

\* Every drop in the array is younger than MaxAge spawns, and every pending
\* cleanup at most MaxAge spawns old.
inFlightYoung ==
    /\ \A i \in idsOf(drops) : nextId - i < MaxAge
    /\ \A i \in cleanups : nextId - i <= MaxAge

\* the spawn callback without its isPaused and isPlaying test
spawnPulseUngated(limit) ==
    /\ scheduled["spawn"] > 0
    /\ nextId < limit
    /\ inFlightYoung
    /\ drops' = spawnDrop(drops, nextId)
    /\ nextId' = nextId + 1
    /\ UNCHANGED <<isPlaying, isPaused, score, gameTime, gameInterval,
                   dropSpawnInterval, timerInterval, difficulty,
                   achievedMilestones, gameOverTitle, scheduled, cleanups,
                   sessionFirstId, collectedIds, missedIds, phase, runQuanta>>

\* the setInterval callback of dropSpawnInterval
spawnPulse(limit) ==
    /\ scheduled["spawn"] > 0
    /\ IF ~isPaused /\ isPlaying
       THEN /\ nextId < limit
            /\ inFlightYoung
            /\ drops' = spawnDrop(drops, nextId)
            /\ nextId' = nextId + 1
       ELSE UNCHANGED <<drops, nextId>>
    /\ UNCHANGED <<isPlaying, isPaused, score, gameTime, gameInterval,
                   dropSpawnInterval, timerInterval, difficulty,
                   achievedMilestones, gameOverTitle, scheduled, cleanups,
                   sessionFirstId, collectedIds, missedIds, phase, runQuanta>>

\* The CSS animation carries the drop's element below the game area; the
\* animation stands still while animationPlayState is 'paused'.
dropFalls(dropId) ==
    /\ ~isPaused
    /\ findIndex(drops, dropId) # 0
    /\ ~drops[findIndex(drops, dropId)].fallen
    /\ dropId - sessionFirstId < MaxFall
    /\ drops' = [drops EXCEPT ![findIndex(drops, dropId)].fallen = TRUE]
    /\ UNCHANGED <<isPlaying, isPaused, score, gameTime, gameInterval,
                   dropSpawnInterval, timerInterval, difficulty,
                   achievedMilestones, gameOverTitle, scheduled, cleanups,
                   nextId, sessionFirstId, collectedIds, missedIds, phase,
                   runQuanta>>

\* ------------------------------------------------------------ collectDrop
\* the two early returns of collectDrop without the drop.collected test
collectableIgnoringFlag(dropId) == findIndex(drops, dropId) # 0

collectable(dropId) ==
    /\ findIndex(drops, dropId) # 0
    /\ ~drops[findIndex(drops, dropId)].collected

collectDrop(dropId) ==
    IF ~collectable(dropId)
    THEN UNCHANGED vars
    ELSE /\ drops' = [drops EXCEPT ![findIndex(drops, dropId)].collected = TRUE]
         /\ score' = score + 1
         /\ achievedMilestones' = checkMilestones(score + 1, achievedMilestones)
         /\ cleanups' = cleanups \cup {dropId}
         /\ collectedIds' = collectedIds \cup {dropId}
         /\ UNCHANGED <<isPlaying, isPaused, gameTime, gameInterval,
                        dropSpawnInterval, timerInterval, difficulty,
                        gameOverTitle, scheduled, nextId, sessionFirstId,
                        missedIds, phase, runQuanta>>

\* the cleanup callback without its currentIndex !== -1 test: splice(-1, 1)
\* removes the last drop of the array
cleanupTimeoutUnchecked(dropId) ==
    /\ dropId \in cleanups
    /\ cleanups' = cleanups \ {dropId}
    /\ drops' = IF findIndex(drops, dropId) # 0
                THEN splice1(drops, findIndex(drops, dropId))
                ELSE SubSeq(drops, 1, Len(drops) - 1)
    /\ UNCHANGED <<isPlaying, isPaused, score, gameTime, gameInterval,
                   dropSpawnInterval, timerInterval, difficulty,
                   achievedMilestones, gameOverTitle, scheduled, nextId,
                   sessionFirstId, collectedIds, missedIds, phase, runQuanta>>

\* the setTimeout(..., 300) callback of collectDrop
cleanupTimeout(dropId) ==
    /\ dropId \in cleanups
    /\ cleanups' = cleanups \ {dropId}
    /\ drops' = IF findIndex(drops, dropId) # 0
                THEN splice1(drops, findIndex(drops, dropId))
                ELSE drops
    /\ UNCHANGED <<isPlaying, isPaused, score, gameTime, gameInterval,
                   dropSpawnInterval, timerInterval, difficulty,
                   achievedMilestones, gameOverTitle, scheduled, nextId,
                   sessionFirstId, collectedIds, missedIds, phase, runQuanta>>

\* ------------------------------------------------------------ updateDrops
keptByUpdate(drop) == ~drop.collected /\ ~drop.fallen

updateDrops(ds) == SelectSeq(ds, keptByUpdate)

\* updateDrops testing the position before the collected flag
removedAsFallenFirst(ds) ==
    {ds[i].id : i \in {j \in 1 .. Len(ds) : ds[j].fallen}}

\* the drops updateDrops removes in its "fallen past the game area" branch
removedAsFallen(ds) ==
    {ds[i].id : i \in {j \in 1 .. Len(ds) : ~ds[j].collected /\ ds[j].fallen}}

\* checkWinCondition comparing with > in place of >=
winConditionMetStrict(s) == s > targetScore

\* checkWinCondition
winConditionMet(s) == s >= targetScore

\* endGame called without its argument: won defaults to false
endGameDefaultArgument(won) ==
    /\ isPlaying' = FALSE
    /\ gameInterval' = Null
    /\ dropSpawnInterval' = Null
    /\ timerInterval' = Null
    /\ scheduled' = clearedSchedule
    /\ gameOverTitle' = "lose"

\* endGame(won): isPlaying, clearIntervals, then the win or game-over modal
endGame(won) ==
    /\ isPlaying' = FALSE
    /\ gameInterval' = Null
    /\ dropSpawnInterval' = Null
    /\ timerInterval' = Null
    /\ scheduled' = clearedSchedule
    /\ gameOverTitle' = IF won THEN "win" ELSE "lose"

\* the game-loop callback without its isPaused test
gameLoopPulseIgnoringPause ==
    /\ scheduled["game"] > 0
    /\ IF isPlaying
       THEN /\ drops' = updateDrops(drops)
            /\ missedIds' = missedIds \cup removedAsFallen(drops)
            /\ IF winConditionMet(score)
               THEN endGame(TRUE)
               ELSE UNCHANGED <<isPlaying, gameInterval, dropSpawnInterval,
                                timerInterval, scheduled, gameOverTitle>>
       ELSE UNCHANGED <<drops, missedIds, isPlaying, gameInterval,
                        dropSpawnInterval, timerInterval, scheduled,
                        gameOverTitle>>
    /\ UNCHANGED <<isPaused, score, gameTime, difficulty, achievedMilestones,
                   cleanups, nextId, sessionFirstId, collectedIds, phase,
                   runQuanta>>

\* the setInterval callback of gameInterval (50 ms): updateDrops, then
\* checkWinCondition, which calls endGame(true)
gameLoopPulse ==
    /\ scheduled["game"] > 0
    /\ IF ~isPaused /\ isPlaying
       THEN /\ drops' = updateDrops(drops)
            /\ missedIds' = missedIds \cup removedAsFallen(drops)
            /\ IF winConditionMet(score)
               THEN endGame(TRUE)
               ELSE UNCHANGED <<isPlaying, gameInterval, dropSpawnInterval,
                                timerInterval, scheduled, gameOverTitle>>
       ELSE UNCHANGED <<drops, missedIds, isPlaying, gameInterval,
                        dropSpawnInterval, timerInterval, scheduled,
                        gameOverTitle>>
    /\ UNCHANGED <<isPaused, score, gameTime, difficulty, achievedMilestones,
                   cleanups, nextId, sessionFirstId, collectedIds, phase,
                   runQuanta>>

\* ------------------------------------------------------------------ timer
\* the timer callback without its isPaused test
timerCallbackIgnoringPause ==
    /\ gameTime' = IF isPlaying THEN gameTime + 1 ELSE gameTime
    /\ UNCHANGED <<isPlaying, isPaused, score, drops, gameInterval,
                   dropSpawnInterval, timerInterval, difficulty,
                   achievedMilestones, gameOverTitle, scheduled, cleanups,
                   nextId, sessionFirstId, collectedIds, missedIds>>

\* the body of the setInterval callback of timerInterval (1000 ms)
timerCallback ==
    /\ gameTime' = IF ~isPaused /\ isPlaying THEN gameTime + 1 ELSE gameTime
    /\ UNCHANGED <<isPlaying, isPaused, score, drops, gameInterval,
                   dropSpawnInterval, timerInterval, difficulty,
                   achievedMilestones, gameOverTitle, scheduled, cleanups,
                   nextId, sessionFirstId, collectedIds, missedIds>>

\* the timer callback, fired at any time while the interval is scheduled
timerPulse ==
    /\ scheduled["timer"] > 0
    /\ (~isPaused /\ isPlaying) => gameTime < MaxSeconds
    /\ timerCallback
    /\ UNCHANGED <<phase, runQuanta>>

\* the timer callback, fired when a full period has passed on the wall clock
timerPulseDue ==
    /\ scheduled["timer"] > 0
    /\ phase = QuantaPerSecond
    /\ phase' = 0
    /\ timerCallback
    /\ UNCHANGED runQuanta

\* One quantum of wall-clock time passes while the timer interval is
\* scheduled; a due timer callback runs before more time passes.
advance ==
    /\ scheduled["timer"] > 0
    /\ phase < QuantaPerSecond
    /\ gameTime <= MaxSeconds
    /\ (~isPaused /\ isPlaying) => runQuanta <= MaxSeconds * QuantaPerSecond
    /\ phase' = phase + 1
    /\ runQuanta' = IF ~isPaused /\ isPlaying THEN runQuanta + 1 ELSE runQuanta
    /\ UNCHANGED <<isPlaying, isPaused, score, gameTime, drops, gameInterval,
                   dropSpawnInterval, timerInterval, difficulty,
                   achievedMilestones, gameOverTitle, scheduled, cleanups,
                   nextId, sessionFirstId, collectedIds, missedIds>>

\* ------------------------------------------------------- the fall on the clock
\* n quanta of wall-clock time amount to at least ms milliseconds
reached(n, ms) == n * 1000 >= ms * QuantaPerSecond

\* A drop one quantum later.  Its age is the wall-clock time since spawnDrop
\* (the Date.now() of its id), animated the time its CSS animation has run;
\* both are counted up to animationDuration.  The animation ends with the
\* element below the game area.
animate(drop, running) ==
    LET older == IF reached(drop.age, drop.animationDuration)
                 THEN drop.age ELSE drop.age + 1
        moved == IF running /\ ~reached(drop.animated, drop.animationDuration)
                 THEN drop.animated + 1 ELSE drop.animated
    IN  [drop EXCEPT !.age = older,
                     !.animated = moved,
                     !.fallen = @ \/ reached(moved, drop.animationDuration)]

\* One quantum of wall-clock time passes and carries the drops on; the
\* animations stand still while paused (animationPlayState).
advanceFalling ==
    /\ scheduled["timer"] > 0
    /\ phase < QuantaPerSecond
    /\ gameTime <= MaxSeconds
    /\ phase' = phase + 1
    /\ drops' = [i \in 1 .. Len(drops) |-> animate(drops[i], ~isPaused)]
    /\ UNCHANGED <<isPlaying, isPaused, score, gameTime, gameInterval,
                   dropSpawnInterval, timerInterval, difficulty,
                   achievedMilestones, gameOverTitle, scheduled, cleanups,
                   nextId, sessionFirstId, collectedIds, missedIds, runQuanta>>

\* ------------------------------------------------------------------- Next
\* the handlers and callbacks, without the motion of the drops
Player(limit) ==
    \/ startGame
    \/ playAgain
    \/ \E key \in Difficulties : changeDifficultySelect(key)
    \/ togglePause
    \/ spawnPulse(limit)
    \/ \E dropId \in Ids : collectDrop(dropId)
    \/ \E dropId \in cleanups : cleanupTimeout(dropId)
    \/ gameLoopPulse

\* what the player and the page do in both specifications
Step(limit) ==
    \/ Player(limit)
    \/ \E dropId \in idsOf(drops) : dropFalls(dropId)

Next ==
    \/ Step(MaxIds)
    \/ timerPulse

Spec == Init /\ [][Next]_vars

NextClock ==
    \/ Step(ClockMaxIds)
    \/ timerPulseDue
    \/ advance

SpecClock == Init /\ [][NextClock]_vars

\* a value of the select's change event that is not a key of the table
OtherSelectValues == {"expert"}

\* the run in which the select can also carry such a value
NextKeys ==
    \/ Step(ClockMaxIds)
    \/ timerPulse
    \/ \E key \in OtherSelectValues : changeDifficultySelect(key)

SpecKeys == Init /\ [][NextKeys]_vars

\* The run of a short game under the scheduling the browser gives: an
\* interval keeps firing, so the game-loop callback runs again and again
\* while the session is unpaused, and a timeout fires once it is due.  The
\* player who has paused resumes at some time.
NextLive ==
    \/ Player(LiveMaxIds)
    \/ timerPulse

SpecLive ==
    /\ Init
    /\ [][NextLive]_vars
    /\ SF_vars(gameLoopPulse)
    /\ WF_vars(isPaused /\ togglePause)
    /\ \A dropId \in 0 .. LiveMaxIds : WF_vars(cleanupTimeout(dropId))

\* the run with the drops falling on the wall clock
NextFall ==
    \/ Player(ClockMaxIds)
    \/ timerPulseDue
    \/ advanceFalling

SpecFall == Init /\ [][NextFall]_vars

\* ================================================================ claims

\* the step is the reset of startGame
IsRestart == ~isPlaying /\ isPlaying'

\* dropId is in the array and not collected yet
Uncollected(dropId) ==
    \E i \in 1 .. Len(drops) : drops[i].id = dropId /\ ~drops[i].collected

\* C1: the score is the number of distinct drops of the current session
\* that have been marked collected.
ScoreCountsCollected ==
    /\ score = Cardinality(collectedIds)
    /\ \A i \in collectedIds : sessionFirstId <= i /\ i < nextId

\* a second session in which drops have been collected and cleaned up
ScoredInSecondSession ==
    /\ sessionFirstId > 0
    /\ score = 2
    /\ cleanups = {}

\* C2: no drop id is both collected and removed as fallen, whichever of
\* collectDrop and updateDrops comes first.
OneOutcomePerDrop == collectedIds \cap missedIds = {}

\* one drop was removed as fallen, another fell and was collected before
\* the game loop ran
CollectedAfterFalling ==
    /\ missedIds # {}
    /\ \E i \in 1 .. Len(drops) : drops[i].fallen /\ drops[i].collected

\* C3: collectDrop with an id that is not in the array, or whose drop is
\* already collected, changes nothing.
StaleCollectIsNoOp ==
    [][\A dropId \in Ids :
          (collectDrop(dropId) /\ ~Uncollected(dropId)) => UNCHANGED vars]_vars

\* a collected drop is still in the array, a missed one has left it and a
\* cleaned-up one too
StaleIdsExist ==
    /\ \E i \in 1 .. Len(drops) : drops[i].collected
    /\ missedIds # {}
    /\ \E c \in collectedIds : c \notin idsOf(drops) /\ c \notin cleanups

\* C4 as stated: the session is never Running or Paused with the target
\* reached.
WinIsImmediate == isPlaying => score < targetScore

\* C4 amended: collectDrop never ends the session; the game-loop pulse that
\* runs unpaused with the target reached ends it with won = true.
WinAtNextPulse ==
    [][/\ (\A dropId \in Ids : collectDrop(dropId) => isPlaying' = isPlaying)
       /\ (gameLoopPulse /\ isPlaying /\ ~isPaused /\ score >= targetScore)
             => (~isPlaying' /\ gameOverTitle' = "win" /\ score' = score)]_vars

\* the session has ended as won
EndedAsWon == Ended /\ gameOverTitle = "win" /\ score >= targetScore

\* C5: startGame from a state that is not playing resets score, time, drops
\* and milestones; nothing of an earlier session is scheduled or in the
\* array afterwards, and a collect or cleanup of an earlier drop changes
\* neither score, drops nor milestones.
RestartIsClean ==
    /\ [](/\ \A i \in idsOf(drops) : sessionFirstId <= i /\ i < nextId
          /\ \A p \in Pulses : scheduled[p] <= 1)
    /\ [][/\ (startGame /\ ~isPlaying)
                => /\ score' = 0 /\ gameTime' = 0 /\ drops' = <<>>
                   /\ achievedMilestones' = <<>>
                   /\ isPlaying' /\ ~isPaused'
          /\ \A dropId \in Ids \cup cleanups :
                (dropId < sessionFirstId
                    /\ (collectDrop(dropId) \/ cleanupTimeout(dropId)))
                => UNCHANGED <<score, drops, achievedMilestones>>]_vars

\* a second session holds a drop while a cleanup of the first is pending
LeftoverCleanupPending ==
    /\ isPlaying
    /\ drops # <<>>
    /\ \E c \in cleanups : c < sessionFirstId

\* C6: togglePause while not playing and startGame while playing change
\* nothing.
InvalidTransitionsAreNoOps ==
    [][((togglePause /\ ~isPlaying) \/ (startGame /\ isPlaying))
          => UNCHANGED vars]_vars

\* a paused session with score, time and a live drop to lose
PausedWithProgress == Paused /\ score > 0 /\ gameTime > 0 /\ drops # <<>>

\* C7: while the session is paused, and across pause and resume, gameTime
\* does not change.
PauseFreezesGameTime ==
    [][(Paused \/ (isPlaying /\ isPlaying' /\ isPaused' # isPaused))
          => gameTime' = gameTime]_vars

\* a session paused after the timer has counted
PausedAfterCounting == Paused /\ gameTime = MaxSeconds

\* C8: gameTime is the number of whole seconds the session has spent
\* running and unpaused: it never counts a second that was not fully spent
\* running, and never lags a whole second of running time (a pause that
\* falls on the very instant of a timer callback may come before it).
GameTimeIsRunningTime ==
    (isPlaying /\ phase < QuantaPerSecond)
        => /\ gameTime * QuantaPerSecond <= runQuanta
           /\ runQuanta <= (gameTime + 1) * QuantaPerSecond

\* C9: achievedMilestones has no duplicate, holds only configured
\* thresholds, and only grows between one startGame and the next.
MilestonesOnceEach ==
    /\ [](/\ \A i, j \in 1 .. Len(achievedMilestones) :
                i # j => achievedMilestones[i] # achievedMilestones[j]
          /\ \A i \in 1 .. Len(achievedMilestones) :
                includes(milestones, achievedMilestones[i]))
    /\ [][~IsRestart
            => /\ Len(achievedMilestones') >= Len(achievedMilestones)
               /\ SubSeq(achievedMilestones', 1, Len(achievedMilestones))
                     = achievedMilestones]_vars

\* every configured threshold has been achieved
AllMilestonesAchieved == Len(achievedMilestones) = Len(milestones)

\* C10: achievedMilestones is exactly the configured thresholds that are
\* <= score, in ascending order.
MilestonesMatchScore ==
    /\ achievedMilestones = SelectSeq(milestones, LAMBDA m : m <= score)
    /\ \A i, j \in 1 .. Len(achievedMilestones) :
          i < j => achievedMilestones[i] < achievedMilestones[j]

\* the score has just reached the second threshold
SecondMilestoneJustReached ==
    /\ score = milestones[2]
    /\ achievedMilestones = <<milestones[1], milestones[2]>>

\* C11: once the session has ended, score and achievedMilestones do not
\* change until startGame is called again.
EndedIsTerminal ==
    [][(Ended /\ ~isPlaying')
          => (score' = score /\ achievedMilestones' = achievedMilestones)]_vars

\* C12: between pause and resume the drop list and the score do not change.
PauseLeavesDropsUntouched ==
    [][(Paused /\ isPlaying' /\ isPaused')
          => (drops' = drops /\ score' = score)]_vars

\* C13: while the session is not Running, no drop is spawned and the game
\* loop removes none: nextId and missedIds stay, no id joins the array, and
\* a spawn or game-loop callback leaves the array as it is.
PulsesSuspendedOutsideRunning ==
    [][~Running
          => /\ nextId' = nextId
             /\ missedIds' = missedIds
             /\ idsOf(drops') \subseteq idsOf(drops)
             /\ (gameLoopPulse \/ spawnPulse(MaxIds)) => drops' = drops]_vars

\* a paused session holds a drop that has fallen below the game area
PausedWithFallenDrop ==
    /\ Paused
    /\ \E i \in 1 .. Len(drops) : drops[i].fallen /\ ~drops[i].collected

\* C14: the session enters Ended only from Running with the target reached
\* and the win modal shown; the game-over modal is never shown, and the
\* score of an ended session never falls below what it was at the end.
EndedOnlyByWinning ==
    /\ [](gameOverTitle # "lose")
    /\ [][/\ (~Ended /\ Ended')
                => /\ Running
                   /\ score >= targetScore
                   /\ score' = score
                   /\ difficulty' = difficulty
                   /\ gameOverTitle' = "win"
          /\ (Ended /\ Ended') => score' >= score]_vars

\* a session that ended, unpaused, with the win modal and its target reached
EndedUnpausedAsWon ==
    Ended /\ ~isPaused /\ gameOverTitle = "win" /\ score >= targetScore

\* C15: an uncollected drop is removed as expired if and only if its
\* wall-clock age has reached its fall duration, pauses notwithstanding:
\* whenever the game loop runs, the drops it takes for fallen are the
\* uncollected drops whose age has reached animationDuration.
ExpiryByWallClockAge ==
    Running =>
        \A i \in 1 .. Len(drops) :
            ~drops[i].collected =>
                (drops[i].fallen
                    <=> reached(drops[i].age, drops[i].animationDuration))

\* C15, as the code has it: only a game-loop callback of a Running session
\* removes drops as fallen, and it removes exactly the uncollected drops
\* whose element is below the game area and keeps the other uncollected ones.
ExpiryByPosition ==
    [][/\ missedIds' # missedIds => (Running /\ gameLoopPulse)
       /\ (Running /\ gameLoopPulse) =>
             \A i \in 1 .. Len(drops) :
                 ~drops[i].collected =>
                     /\ drops[i].fallen <=> drops[i].id \in missedIds'
                     /\ drops[i].fallen <=> drops[i].id \notin idsOf(drops')
       /\ missedIds' \ missedIds \subseteq
             {drops[i].id : i \in {j \in 1 .. Len(drops) :
                                      ~drops[j].collected /\ drops[j].fallen}}
      ]_vars

\* one drop was removed as fallen; another, aged past its fall duration
\* during a pause, is still falling in the resumed session
AgedDropStillFalling ==
    /\ Running
    /\ missedIds # {}
    /\ \E i \in 1 .. Len(drops) :
          /\ ~drops[i].collected
          /\ ~drops[i].fallen
          /\ reached(drops[i].age, drops[i].animationDuration)

\* C16: with a difficulty that is not a key of difficultySettings the
\* session does not start, and a playing session always has its pulses.
UnknownDifficultyNeverStarts ==
    /\ startGameLoopThrows => ~isPlaying
    /\ isPlaying => \A p \in Pulses : scheduled[p] > 0

\* C17: the session state changes only along Idle -> Running,
\* Running -> Paused, Paused -> Running, Running -> Ended and
\* Ended -> Running; it never changes in any other way.
OnlyListedTransitions ==
    [][\/ (Idle /\ Idle') \/ (Running /\ Running')
       \/ (Paused /\ Paused') \/ (Ended /\ Ended')
       \/ (Idle /\ Running')
       \/ (Running /\ Paused')
       \/ (Paused /\ Running')
       \/ (Running /\ Ended')
       \/ (Ended /\ Running')]_vars

\* a second session, started from Ended, is paused
PausedInSecondSession == Paused /\ gameOverTitle = "win"

\* C18: once the score has reached the target in a Running session, the
\* session eventually is Ended as won; the game-loop callback that runs
\* unpaused with the target reached makes that step and leaves no interval
\* scheduled.
WinEventuallyEnds ==
    /\ (Running /\ score >= targetScore) ~> (Ended /\ gameOverTitle = "win")
    /\ [][(gameLoopPulse /\ Running /\ score >= targetScore)
             => /\ Ended' /\ gameOverTitle' = "win"
                /\ gameInterval' = Null
                /\ dropSpawnInterval' = Null
                /\ timerInterval' = Null
                /\ \A p \in Pulses : scheduled'[p] = 0]_vars

\* a session that lasted a counted second has ended as won with no interval
\* left
WonAfterPauseAndUnscheduled ==
    /\ Ended /\ gameOverTitle = "win"
    /\ gameTime > 0
    /\ \A p \in Pulses : scheduled[p] = 0

\* C19: the three intervals are scheduled exactly while the session is
\* playing: every handle set and one live interval each while isPlaying,
\* every handle null and no live interval otherwise.
PulsesExactlyWhilePlaying ==
    /\ isPlaying =>
          /\ gameInterval = Handle
          /\ dropSpawnInterval = Handle
          /\ timerInterval = Handle
          /\ \A p \in Pulses : scheduled[p] = 1
    /\ ~isPlaying =>
          /\ gameInterval = Null
          /\ dropSpawnInterval = Null
          /\ timerInterval = Null
          /\ \A p \in Pulses : scheduled[p] = 0

\* the collected drop with this id is in the array
CollectedInArray(dropId) ==
    \E i \in 1 .. Len(drops) : drops[i].id = dropId /\ drops[i].collected

====
